---- MODULE Spec2Model ----
(***************************************************************************)
(* The visual scene editor (editor/main.js): the entity list, the          *)
(* selection, the transform gizmo, the camera state and the scene JSON     *)
(* text, with one action per event handler.                                *)
(*                                                                         *)
(* Numbers are exact rationals <<n, d>> in lowest terms with d > 0, plus   *)
(* the three non-finite values of a JavaScript number: <<1, 0>> is         *)
(* Infinity, <<-1, 0>> is -Infinity and <<0, 0>> is NaN.  A THREE.Vector3  *)
(* is a record [x, y, z]; a JSON array is a tuple; a JSON object is a      *)
(* record with exactly the fields that are present.  An object reference   *)
(* is the index of the object in heap; null is 0.                          *)
(***************************************************************************)
EXTENDS Integers, Sequences, FiniteSets, TLC

VARIABLES
    entities,        \* const entities = []: the live entities, as references
    heap,            \* every entity object ever constructed (live or not)
    idCounter,       \* let idCounter = 1
    selectedEntity,  \* let selectedEntity = null
    transformObject, \* transform.object: what the gizmo is attached to
    cameraState,     \* const cameraState = {...}
    options,         \* objectList.options: the option values, in order
    editorHidden,    \* entityEditor.hidden
    formEntity,      \* the entity whose fields entityForm holds (0: empty form)
    sceneJsonText,   \* sceneJsonText.value, as the document it encodes
    cameraForm,      \* the camera form's twelve fields, each as the number its text reads as
    view,            \* camera.position, orbit.target, camera.up and camera.fov
    pending,         \* number of file reads issued by the import input and not yet loaded
    edits            \* number of field edits and drag frames so far

vars == <<entities, heap, idCounter, selectedEntity, transformObject, cameraState,
          options, editorHidden, formEntity, sceneJsonText, cameraForm, view,
          pending, edits>>

(***************************************************************************)
(* Bounds of the model.                                                    *)
(***************************************************************************)
MaxWork == 3        \* entities constructed plus field edits and drag frames, per run
MaxPending == 1     \* file reads in flight at once
MaxReads == 2       \* file reads in flight at once (SpecReads)
MaxDirect == 2      \* times one visual may be disposed before direct calls stop (SpecDirect)
MaxImported == 4    \* entities constructed per run of imports (SpecImport)

NULL == 0

(***************************************************************************)
(* JavaScript numbers.                                                     *)
(***************************************************************************)
Abs(i) == IF i < 0 THEN -i ELSE i

Sgn(i) == IF i < 0 THEN -1 ELSE IF i > 0 THEN 1 ELSE 0

RECURSIVE Gcd(_, _)
Gcd(a, b) == IF b = 0 THEN a ELSE Gcd(b, a % b)

\* The number n/d: lowest terms, positive denominator; n/0 is an infinity or NaN.
Num(n, d) ==
    IF d = 0 THEN <<Sgn(n), 0>>
    ELSE LET g == Gcd(Abs(n), Abs(d))
         IN  <<(Sgn(d) * n) \div g, Abs(d) \div g>>

IntNum(i) == <<i, 1>>
NaN == <<0, 0>>
Infinity == <<1, 0>>

IsNaN(a) == a = NaN
IsFinite(a) == a[2] # 0

\* a + b
Add(a, b) ==
    IF a[2] = 0 /\ b[2] = 0
    THEN (IF a = b THEN a ELSE NaN)
    ELSE Num(a[1] * b[2] + b[1] * a[2], a[2] * b[2])

Neg(a) == <<-a[1], a[2]>>

\* a - b
Sub(a, b) == Add(a, Neg(b))

\* a * b
Mul(a, b) == Num(a[1] * b[1], a[2] * b[2])

\* a / b (x / 0 is an infinity, 0 / 0 is NaN)
Div(a, b) ==
    IF IsNaN(a) \/ IsNaN(b) THEN NaN
    ELSE IF a[2] = 0 /\ b[2] = 0 THEN NaN
    ELSE IF b[2] = 0 THEN IntNum(0)
    ELSE IF a[2] = 0 THEN (IF b[1] < 0 THEN Neg(a) ELSE a)
    ELSE Num(a[1] * b[2], a[2] * b[1])

\* a < b
Less(a, b) ==
    /\ ~IsNaN(a)
    /\ ~IsNaN(b)
    /\ a # b
    /\ IF a[2] = 0 THEN a[1] < 0
       ELSE IF b[2] = 0 THEN b[1] > 0
       ELSE a[1] * b[2] < b[1] * a[2]

\* Math.max taken for its second argument
MathMax_second(a, b) == b

\* Math.max(a, b)
MathMax(a, b) ==
    IF IsNaN(a) \/ IsNaN(b) THEN NaN
    ELSE IF Less(a, b) THEN b ELSE a

\* a === b on numbers: NaN equals nothing
StrictEq(a, b) == a = b /\ ~IsNaN(a)

\* if (a): 0 and NaN are falsy
Truthy(a) == a # IntNum(0) /\ ~IsNaN(a)

(***************************************************************************)
(* THREE.Vector3 and arrays.                                               *)
(***************************************************************************)
Vector3(x, y, z) == [x |-> x, y |-> y, z |-> z]

Axes == {"x", "y", "z"}

\* toArray(vector)
toArray(vector) == <<vector.x, vector.y, vector.z>>

\* vector.set(a[0], a[1], a[2]) from a JSON array
FromArray(a) == Vector3(a[1], a[2], a[3])

\* the closure axisUpdater(axis, value) applied to a vector
axisUpdater(axis, value, vector) == [vector EXCEPT ![axis] = value]

VecEq(a, b) == \A ax \in Axes : StrictEq(a[ax], b[ax])

Zero == IntNum(0)
One == IntNum(1)

(***************************************************************************)
(* The editor's state as one record, so that the functions of main.js can  *)
(* be written as functions from state to state.  threw records an          *)
(* exception in flight: every statement after a throw is skipped up to     *)
(* the enclosing catch.                                                    *)
(***************************************************************************)
Cur ==
    [entities |-> entities, heap |-> heap, idCounter |-> idCounter,
     selectedEntity |-> selectedEntity, transformObject |-> transformObject,
     cameraState |-> cameraState, options |-> options,
     editorHidden |-> editorHidden, formEntity |-> formEntity,
     sceneJsonText |-> sceneJsonText, cameraForm |-> cameraForm, view |-> view,
     threw |-> FALSE]

\* entities.indexOf(entity): 0 stands for -1
RECURSIVE IndexFrom(_, _, _)
IndexFrom(seq, x, i) ==
    IF i > Len(seq) THEN 0
    ELSE IF seq[i] = x THEN i
    ELSE IndexFrom(seq, x, i + 1)

indexOf(seq, x) == IndexFrom(seq, x, 1)

\* An entity object that nothing can read any more is garbage: of such an object
\* the heap keeps the identity, the id, the kind and how often its visual was
\* disposed.  The closures of a hidden form are not a reader: the form is rebuilt
\* by selectEntity before the panel is shown again.
Reachable(st, ref) ==
    \/ indexOf(st.entities, ref) > 0
    \/ st.selectedEntity = ref
    \/ st.transformObject = ref
    \/ (~st.editorHidden /\ st.formEntity = ref)

Collected(e) == [id |-> e.id, kind |-> e.kind, mesh |-> [disposed |-> e.mesh.disposed]]

Collect(st) ==
    [ref \in DOMAIN st.heap |->
        IF Reachable(st, ref) THEN st.heap[ref] ELSE Collected(st.heap[ref])]

\* the state a handler leaves, when it returns
Commit(st) ==
    /\ entities' = st.entities
    /\ heap' = Collect(st)
    /\ idCounter' = st.idCounter
    /\ selectedEntity' = st.selectedEntity
    /\ transformObject' = st.transformObject
    /\ cameraState' = st.cameraState
    /\ options' = st.options
    /\ editorHidden' = st.editorHidden
    /\ formEntity' = st.formEntity
    /\ sceneJsonText' = st.sceneJsonText
    /\ cameraForm' = st.cameraForm
    /\ view' = st.view

\* seq.splice(index, 1)
Splice(seq, index) == SubSeq(seq, 1, index - 1) \o SubSeq(seq, index + 1, Len(seq))

\* generateId numbering by the length of the live list instead of a counter
generateId_byLength(st, prefix) == <<prefix, Len(st.entities) + 2>>

\* the `${prefix}-${idCounter}` of generateId, after idCounter += 1
generateId(st, prefix) == <<prefix, st.idCounter + 1>>

\* the null id (selectEntity(null)) and the value "" of an emptied list
NoId == <<>>

(***************************************************************************)
(* buildSceneJson and refreshSceneJson.                                    *)
(***************************************************************************)
\* colorToArray(color)
colorToArray(color) == <<color.r, color.g, color.b>>

\* records whose cube corners lie a whole size, not half a size, from the center
EntityRecord_fullSize(e) ==
    IF e.kind = "sphere" THEN
        [type |-> "sphere", center |-> toArray(e.data.center),
         radius |-> e.data.radius, color |-> colorToArray(e.data.color)]
    ELSE IF e.kind = "cube" THEN
        LET size == e.data.size
            center == e.data.center
        IN  [type |-> "cube",
             min |-> <<Sub(center.x, size.x), Sub(center.y, size.y), Sub(center.z, size.z)>>,
             max |-> <<Add(center.x, size.x), Add(center.y, size.y), Add(center.z, size.z)>>,
             color |-> colorToArray(e.data.color)]
    ELSE
        [type |-> "point", position |-> toArray(e.data.position),
         intensity |-> <<e.data.intensity.r, e.data.intensity.g, e.data.intensity.b>>,
         direction |-> <<e.data.direction.x, e.data.direction.y, e.data.direction.z>>]

\* the record buildSceneJson pushes for one entity
EntityRecord(e) ==
    IF e.kind = "sphere" THEN
        [type |-> "sphere", center |-> toArray(e.data.center),
         radius |-> e.data.radius, color |-> colorToArray(e.data.color)]
    ELSE IF e.kind = "cube" THEN
        LET half == [ax \in Axes |-> Div(e.data.size[ax], IntNum(2))]
            center == e.data.center
        IN  [type |-> "cube",
             min |-> <<Sub(center.x, half.x), Sub(center.y, half.y), Sub(center.z, half.z)>>,
             max |-> <<Add(center.x, half.x), Add(center.y, half.y), Add(center.z, half.z)>>,
             color |-> colorToArray(e.data.color)]
    ELSE
        [type |-> "point", position |-> toArray(e.data.position),
         intensity |-> <<e.data.intensity.r, e.data.intensity.g, e.data.intensity.b>>,
         direction |-> <<e.data.direction.x, e.data.direction.y, e.data.direction.z>>]

\* the records in the reverse of the list's order
RECURSIVE FilterKinds_reversed(_, _, _)
FilterKinds_reversed(refs, hp, kinds) ==
    IF refs = <<>> THEN <<>>
    ELSE LET rest == FilterKinds_reversed(Tail(refs), hp, kinds)
         IN  IF hp[Head(refs)].kind \in kinds
             THEN rest \o <<EntityRecord(hp[Head(refs)])>>
             ELSE rest

\* the members of seq that satisfy Test, in order
RECURSIVE FilterKinds(_, _, _)
FilterKinds(refs, hp, kinds) ==
    IF refs = <<>> THEN <<>>
    ELSE LET rest == FilterKinds(Tail(refs), hp, kinds)
         IN  IF hp[Head(refs)].kind \in kinds
             THEN <<EntityRecord(hp[Head(refs)])>> \o rest
             ELSE rest

buildSceneJson(st) ==
    [camera |->
        [position |-> <<st.cameraState.position.x, st.cameraState.position.y, st.cameraState.position.z>>,
         look_at |-> <<st.cameraState.lookAt.x, st.cameraState.lookAt.y, st.cameraState.lookAt.z>>,
         up |-> <<st.cameraState.up.x, st.cameraState.up.y, st.cameraState.up.z>>,
         fov |-> st.cameraState.fov,
         width |-> st.cameraState.width,
         height |-> st.cameraState.height],
     objects |-> FilterKinds(st.entities, st.heap, {"sphere", "cube"}),
     lights |-> FilterKinds(st.entities, st.heap, {"light"})]

\* JSON.stringify writes a number that is not finite as null
JsonNull == <<"null">>

jsonNumber(a) == IF IsFinite(a) THEN a ELSE JsonNull

jsonArray(a) == [i \in DOMAIN a |-> jsonNumber(a[i])]

jsonRecord(r) ==
    IF r.type = "sphere" THEN
        [r EXCEPT !.center = jsonArray(@), !.radius = jsonNumber(@), !.color = jsonArray(@)]
    ELSE IF r.type = "cube" THEN
        [r EXCEPT !.min = jsonArray(@), !.max = jsonArray(@), !.color = jsonArray(@)]
    ELSE
        [r EXCEPT !.position = jsonArray(@), !.intensity = jsonArray(@),
                  !.direction = jsonArray(@)]

\* JSON.stringify(sceneDefinition, null, 2), as the document the text denotes
stringify(doc) ==
    [camera |->
        [position |-> jsonArray(doc.camera.position),
         look_at |-> jsonArray(doc.camera.look_at),
         up |-> jsonArray(doc.camera.up),
         fov |-> jsonNumber(doc.camera.fov),
         width |-> jsonNumber(doc.camera.width),
         height |-> jsonNumber(doc.camera.height)],
     objects |-> [i \in DOMAIN doc.objects |-> jsonRecord(doc.objects[i])],
     lights |-> [i \in DOMAIN doc.lights |-> jsonRecord(doc.lights[i])]]

refreshSceneJson(st) == [st EXCEPT !.sceneJsonText = stringify(buildSceneJson(st))]

(***************************************************************************)
(* The camera form.  A field holds text; the model keeps the number that   *)
(* Number(text) gives, which is what updateCameraStateFromForm reads.      *)
(***************************************************************************)
\* Math.round: the nearest integer, a half going up
MathRound(a) ==
    IF ~IsFinite(a) THEN a
    ELSE IntNum((2 * a[1] + a[2]) \div (2 * a[2]))

\* Number(a.toFixed(digits)), digits 2 or 3: the nearest multiple of
\* 10^-digits, a half going away from zero
toFixed(a, digits) ==
    IF ~IsFinite(a) THEN a
    ELSE LET scale == IF digits = 2 THEN 100 ELSE 1000
             units == (2 * Abs(a[1]) * scale + a[2]) \div (2 * a[2])
         IN  Num(Sgn(a[1]) * units, scale)

toFixedVector(v, digits) ==
    Vector3(toFixed(v.x, digits), toFixed(v.y, digits), toFixed(v.z, digits))

parseNumber(value, fallback) == IF IsFinite(value) THEN value ELSE fallback

parseVector(value, fallback) ==
    Vector3(parseNumber(value.x, fallback.x), parseNumber(value.y, fallback.y),
            parseNumber(value.z, fallback.z))

populateCameraForm(st) ==
    [st EXCEPT !.cameraForm =
        [position |-> toFixedVector(st.cameraState.position, 3),
         lookAt |-> toFixedVector(st.cameraState.lookAt, 3),
         up |-> toFixedVector(st.cameraState.up, 3),
         fov |-> toFixed(st.cameraState.fov, 2),
         width |-> st.cameraState.width,
         height |-> st.cameraState.height]]

applyCameraStateToView(st) ==
    [st EXCEPT !.view =
        [position |-> st.cameraState.position,
         target |-> st.cameraState.lookAt,
         up |-> st.cameraState.up,
         fov |-> st.cameraState.fov]]

updateCameraStateFromForm(st) ==
    LET form == st.cameraForm
        cam == st.cameraState
        read ==
            [position |-> parseVector(form.position, cam.position),
             lookAt |-> parseVector(form.lookAt, cam.lookAt),
             up |-> parseVector(form.up, cam.up),
             fov |-> parseNumber(form.fov, cam.fov),
             width |-> MathMax(One, MathRound(parseNumber(form.width, cam.width))),
             height |-> MathMax(One, MathRound(parseNumber(form.height, cam.height)))]
    IN  refreshSceneJson(applyCameraStateToView([st EXCEPT !.cameraState = read]))

\* the focus-origin button's click listener
focusOrigin(st) ==
    refreshSceneJson(
        [st EXCEPT !.view.target = Vector3(Zero, Zero, Zero),
                   !.cameraState.lookAt = Vector3(Zero, Zero, Zero)])

\* the sync-from-view button's click listener
syncFromView(st) ==
    refreshSceneJson(populateCameraForm(
        [st EXCEPT !.cameraState.position = st.view.position,
                   !.cameraState.lookAt = st.view.target,
                   !.cameraState.up = st.view.up,
                   !.cameraState.fov = st.view.fov]))

(***************************************************************************)
(* Entities: selection, the property form, removal, creation.              *)
(***************************************************************************)
\* entities.find((e) => e.id === id): the first live entity with that id, or null
RECURSIVE FindById(_, _, _)
FindById(refs, hp, id) ==
    IF refs = <<>> THEN NULL
    ELSE IF hp[Head(refs)].id = id THEN Head(refs)
    ELSE FindById(Tail(refs), hp, id)

refreshEntityForm(st) ==
    IF st.selectedEntity = NULL
    THEN [st EXCEPT !.formEntity = NULL, !.editorHidden = TRUE]
    ELSE [st EXCEPT !.formEntity = st.selectedEntity]

\* selectEntity that keeps the selection when no live entity has the id
selectEntity_keep(st, id) ==
    LET entity == FindById(st.entities, st.heap, id)
    IN  IF entity = NULL THEN st
        ELSE [refreshEntityForm([st EXCEPT !.selectedEntity = entity,
                                           !.editorHidden = FALSE])
                EXCEPT !.transformObject = entity]

selectEntity(st, id) ==
    LET entity == FindById(st.entities, st.heap, id)
        st1 == [st EXCEPT !.selectedEntity = entity]
    IN  IF entity = NULL
        THEN [st1 EXCEPT !.transformObject = NULL, !.editorHidden = TRUE]
        ELSE [refreshEntityForm([st1 EXCEPT !.editorHidden = FALSE])
                EXCEPT !.transformObject = entity]

\* disposeObject releasing nothing
disposeObject_leak(st, ref) == st

\* disposeObject(object): one more release of the geometry and material under object
disposeObject(st, ref) == [st EXCEPT !.heap[ref].mesh.disposed = @ + 1]

\* the options that remain after option.remove() on every option with that value
RECURSIVE RemoveOptions(_, _)
RemoveOptions(opts, id) ==
    IF opts = <<>> THEN <<>>
    ELSE IF Head(opts) = id THEN RemoveOptions(Tail(opts), id)
    ELSE <<Head(opts)>> \o RemoveOptions(Tail(opts), id)

\* removeEntity that empties the selection and leaves the gizmo attached
removeEntity_noDetach(st, ref) ==
    LET index == indexOf(st.entities, ref)
        st1 == IF index > 0 THEN [st EXCEPT !.entities = Splice(@, index)] ELSE st
        st2 == disposeObject(st1, ref)
        st3 == [st2 EXCEPT !.options = RemoveOptions(@, st.heap[ref].id)]
        st4 == IF st3.selectedEntity # NULL
                  /\ st3.heap[st3.selectedEntity].id = st3.heap[ref].id
               THEN [st3 EXCEPT !.selectedEntity = NULL, !.editorHidden = TRUE]
               ELSE st3
    IN  refreshSceneJson(st4)

\* removeEntity that leaves the selection alone
removeEntity_keepSelection(st, ref) ==
    LET index == indexOf(st.entities, ref)
        st1 == IF index > 0 THEN [st EXCEPT !.entities = Splice(@, index)] ELSE st
        st2 == disposeObject(st1, ref)
        st3 == [st2 EXCEPT !.options = RemoveOptions(@, st.heap[ref].id)]
    IN  refreshSceneJson(st3)

removeEntity(st, ref) ==
    LET index == indexOf(st.entities, ref)
        st1 == IF index > 0 THEN [st EXCEPT !.entities = Splice(@, index)] ELSE st
        st2 == disposeObject(st1, ref)
        st3 == [st2 EXCEPT !.options = RemoveOptions(@, st.heap[ref].id)]
        st4 == IF st3.selectedEntity # NULL
                  /\ st3.heap[st3.selectedEntity].id = st3.heap[ref].id
               THEN [st3 EXCEPT !.selectedEntity = NULL, !.transformObject = NULL,
                                !.editorHidden = TRUE]
               ELSE st3
    IN  refreshSceneJson(st4)

\* a colour picker's value "#rrggbb", or a hex literal 0xrrggbb, as its three bytes
Hex(r, g, b) == <<r, g, b>>

\* new THREE.Color(hex): each byte over 255
ThreeColor(hex) == [r |-> Num(hex[1], 255), g |-> Num(hex[2], 255), b |-> Num(hex[3], 255)]

\* new THREE.Color(...array)
ThreeColorRGB(array) == [r |-> array[1], g |-> array[2], b |-> array[3]]

\* new THREE.MeshStandardMaterial({ color })
Material(color) == [material |-> [color |-> color]]

\* a new Mesh (or Group) with scale 1, not yet disposed
Mesh(position, geometry) ==
    [position |-> position, scale |-> Vector3(One, One, One),
     geometry |-> geometry, disposed |-> 0]

\* entities.push(entity); addListItem(entity), with idCounter advanced by generateId
pushEntity(st, entity) ==
    [st EXCEPT !.idCounter = @ + 1,
               !.heap = Append(@, entity),
               !.entities = Append(@, Len(st.heap) + 1),
               !.options = Append(@, entity.id)]

SphereDefault ==
    [id |-> NoId, kind |-> "sphere",
     mesh |-> Mesh(Vector3(Zero, One, Zero), Vector3(One, One, One))
                 @@ Material(ThreeColor(Hex(136, 204, 255))),
     data |-> [center |-> Vector3(Zero, One, Zero), radius |-> One,
               color |-> [r |-> Num(533, 1000), g |-> Num(8, 10), b |-> One]]]

CubeDefault ==
    [id |-> NoId, kind |-> "cube",
     mesh |-> Mesh(Vector3(Zero, Num(3, 4), Zero), Vector3(Num(3, 2), Num(3, 2), Num(3, 2)))
                 @@ Material(ThreeColor(Hex(255, 193, 100))),
     data |-> [center |-> Vector3(Zero, Num(3, 4), Zero),
               size |-> Vector3(Num(3, 2), Num(3, 2), Num(3, 2)),
               color |-> [r |-> One, g |-> Num(761, 1000), b |-> Num(392, 1000)]]]

LightDefault ==
    [id |-> NoId, kind |-> "light",
     mesh |-> Mesh(Vector3(IntNum(3), IntNum(5), IntNum(3)), Vector3(Zero, Zero, Zero)),
     light |-> [color |-> [r |-> One, g |-> One, b |-> One]],
     data |-> [position |-> Vector3(IntNum(3), IntNum(5), IntNum(3)),
               intensity |-> [r |-> One, g |-> One, b |-> One],
               direction |-> Vector3(Zero, IntNum(-1), Zero)]]

\* creation that does not select the new entity
createEntity_noSelect(st, prefix, default) ==
    LET entity == [default EXCEPT !.id = generateId(st, prefix)]
    IN  refreshSceneJson(pushEntity(st, entity))

\* the body shared by createSphereEntity, createCubeEntity and createLightEntity
createEntity(st, prefix, default) ==
    LET entity == [default EXCEPT !.id = generateId(st, prefix)]
    IN  refreshSceneJson(selectEntity(pushEntity(st, entity), entity.id))

createSphereEntity(st) == createEntity(st, "sphere", SphereDefault)

createCubeEntity(st) == createEntity(st, "cube", CubeDefault)

createLightEntity(st) == createEntity(st, "light", LightDefault)

(***************************************************************************)
(* Import.  A JSON object is a record that has exactly the fields the      *)
(* text gives; reading an element of a field that is absent throws.        *)
(***************************************************************************)
Has(obj, f) == f \in DOMAIN obj

Throw(st) == [st EXCEPT !.threw = TRUE]

\* an import that keeps the entities it finds
RemoveAll_none(st, refs) == st

\* for (const entity of [...entities]) removeEntity(entity)
RECURSIVE RemoveAll(_, _)
RemoveAll(st, refs) ==
    IF refs = <<>> THEN st
    ELSE RemoveAll(removeEntity(st, Head(refs)), Tail(refs))

\* the if (data.camera) block
loadCamera(st, data) ==
    IF ~Has(data, "camera") THEN st
    ELSE
    LET cam == data.camera
        setPosition(s) == [s EXCEPT !.cameraState.position = FromArray(cam.position)]
        setLookAt(s) == [s EXCEPT !.cameraState.lookAt = FromArray(cam.look_at)]
        setUp(s) ==
            IF Has(cam, "up")
            THEN [s EXCEPT !.cameraState.up = FromArray(cam.up)] ELSE s
        setFov(s) ==
            IF Has(cam, "fov") /\ Truthy(cam.fov)
            THEN [s EXCEPT !.cameraState.fov = cam.fov] ELSE s
        setWidth(s) ==
            IF Has(cam, "width") /\ Truthy(cam.width)
            THEN [s EXCEPT !.cameraState.width = cam.width] ELSE s
        setHeight(s) ==
            IF Has(cam, "height") /\ Truthy(cam.height)
            THEN [s EXCEPT !.cameraState.height = cam.height] ELSE s
    IN  IF ~Has(cam, "position") THEN Throw(st)
        ELSE IF ~Has(cam, "look_at") THEN Throw(setPosition(st))
        ELSE populateCameraForm(applyCameraStateToView(
                 setHeight(setWidth(setFov(setUp(setLookAt(setPosition(st))))))))

\* one turn of the loop over data.objects
loadObject(st, obj) ==
    IF Has(obj, "type") /\ obj.type = "sphere" THEN
        IF ~Has(obj, "color") \/ ~Has(obj, "center") THEN Throw(st)
        ELSE
        LET position == FromArray(obj.center)
            scale == obj.radius
            entity ==
                [id |-> generateId(st, "sphere"), kind |-> "sphere",
                 mesh |-> [Mesh(position, Vector3(One, One, One))
                             EXCEPT !.scale = Vector3(scale, scale, scale)]
                             @@ Material(ThreeColorRGB(obj.color)),
                 data |-> [center |-> position, radius |-> obj.radius,
                           color |-> [r |-> obj.color[1], g |-> obj.color[2],
                                      b |-> obj.color[3]]]]
        IN  pushEntity(st, entity)
    ELSE IF Has(obj, "type") /\ obj.type = "cube" THEN
        IF ~Has(obj, "max") \/ ~Has(obj, "min") \/ ~Has(obj, "color") THEN Throw(st)
        ELSE
        LET width == Sub(obj.max[1], obj.min[1])
            height == Sub(obj.max[2], obj.min[2])
            depth == Sub(obj.max[3], obj.min[3])
            center == <<Div(Add(obj.min[1], obj.max[1]), IntNum(2)),
                        Div(Add(obj.min[2], obj.max[2]), IntNum(2)),
                        Div(Add(obj.min[3], obj.max[3]), IntNum(2))>>
            entity ==
                [id |-> generateId(st, "cube"), kind |-> "cube",
                 mesh |-> Mesh(FromArray(center), Vector3(width, height, depth))
                             @@ Material(ThreeColorRGB(obj.color)),
                 data |-> [center |-> FromArray(center),
                           size |-> Vector3(width, height, depth),
                           color |-> [r |-> obj.color[1], g |-> obj.color[2],
                                      b |-> obj.color[3]]]]
        IN  pushEntity(st, entity)
    ELSE st

\* one turn of the loop over data.lights
loadLight(st, lightData) ==
    IF Has(lightData, "type") /\ lightData.type = "point" THEN
        LET position == IF Has(lightData, "position") THEN lightData.position
                        ELSE <<Zero, IntNum(5), Zero>>
            intensity == IF Has(lightData, "intensity") THEN lightData.intensity
                         ELSE <<One, One, One>>
            direction == IF Has(lightData, "direction") THEN lightData.direction
                         ELSE <<Zero, IntNum(-1), Zero>>
            entity ==
                [id |-> generateId(st, "light"), kind |-> "light",
                 mesh |-> Mesh(FromArray(position), Vector3(Zero, Zero, Zero)),
                 light |-> [color |-> [r |-> intensity[1], g |-> intensity[2],
                                       b |-> intensity[3]]],
                 data |-> [position |-> FromArray(position),
                           intensity |-> [r |-> intensity[1], g |-> intensity[2],
                                          b |-> intensity[3]],
                           direction |-> FromArray(direction)]]
        IN  pushEntity(st, entity)
    ELSE st

\* a loop over data.objects that throws at a record whose type it does not know
RECURSIVE LoadObjects_strict(_, _)
LoadObjects_strict(st, objs) ==
    IF objs = <<>> \/ st.threw THEN st
    ELSE IF ~Has(Head(objs), "type") \/ Head(objs).type \notin {"sphere", "cube"}
    THEN Throw(st)
    ELSE LoadObjects_strict(loadObject(st, Head(objs)), Tail(objs))

\* the two for loops: the first throw ends them
RECURSIVE LoadObjects(_, _)
LoadObjects(st, objs) ==
    IF objs = <<>> \/ st.threw THEN st
    ELSE LoadObjects(loadObject(st, Head(objs)), Tail(objs))

RECURSIVE LoadLights(_, _)
LoadLights(st, lights) ==
    IF lights = <<>> \/ st.threw THEN st
    ELSE LoadLights(loadLight(st, Head(lights)), Tail(lights))

loadSceneFromJson(st, data) ==
    LET withObjects(s) ==
            IF s.threw \/ ~Has(data, "objects") THEN s
            ELSE LoadObjects(s, data.objects)
        withLights(s) ==
            IF s.threw \/ ~Has(data, "lights") THEN s
            ELSE LoadLights(s, data.lights)
        selected(s) ==
            IF s.entities # <<>>
            THEN selectEntity(s, s.heap[s.entities[Len(s.entities)]].id)
            ELSE selectEntity(s, NoId)
        finished(s) == IF s.threw THEN s ELSE refreshSceneJson(selected(s))
    IN  finished(withLights(withObjects(loadCamera(RemoveAll(st, st.entities), data))))

\* the catch of reader.onload runs (alert("Failed to parse scene JSON")) when
\* JSON.parse or loadSceneFromJson throws
alerted(st, text) ==
    IF ~text.valid THEN TRUE ELSE loadSceneFromJson(st, text.data).threw

\* reader.onload: JSON.parse, then loadSceneFromJson; the catch keeps what was done
onload(st, text) ==
    IF ~text.valid THEN st ELSE loadSceneFromJson(st, text.data)

(***************************************************************************)
(* Property fields and the gizmo.                                          *)
(***************************************************************************)
setEntityPosition(st, axis, value) ==
    IF st.selectedEntity = NULL THEN st
    ELSE
    LET ref == st.selectedEntity
        updated == axisUpdater(axis, value, st.heap[ref].mesh.position)
        s1 == [st EXCEPT !.heap[ref].mesh.position = updated]
        s2 == IF s1.heap[ref].kind = "light"
              THEN [s1 EXCEPT !.heap[ref].data.position = s1.heap[ref].mesh.position]
              ELSE [s1 EXCEPT !.heap[ref].data.center = s1.heap[ref].mesh.position]
    IN  refreshSceneJson(s2)

\* updateEntityFromTransform leaving the canonical position as it was
updateEntityFromTransform_stale(st, ref) == st

updateEntityFromTransform(st, ref) ==
    IF st.heap[ref].kind = "light"
    THEN [st EXCEPT !.heap[ref].data.position = st.heap[ref].mesh.position]
    ELSE [st EXCEPT !.heap[ref].data.center = st.heap[ref].mesh.position]

\* the objectChange listener of the transform controls
objectChange(st) ==
    IF st.selectedEntity # NULL
    THEN refreshSceneJson(refreshEntityForm(
             updateEntityFromTransform(st, st.selectedEntity)))
    ELSE st

\* the Radius field's onChange, for the sphere the form was built for
onRadiusChange(st, ref, value) ==
    LET radius == MathMax(Num(1, 10), value)
        uniformScale == Div(radius, One)
    IN  refreshSceneJson(
            [st EXCEPT !.heap[ref].data.radius = radius,
                       !.heap[ref].mesh.scale =
                           Vector3(uniformScale, uniformScale, uniformScale),
                       !.heap[ref].mesh.position.y = st.heap[ref].data.center.y])

\* the Width, Height and Depth fields' onChange (axis x, y, z)
onDimensionChange(st, ref, axis, value) ==
    LET size == MathMax(Num(1, 10), value)
    IN  refreshSceneJson(
            [st EXCEPT !.heap[ref].data.size[axis] = size,
                       !.heap[ref].mesh.scale[axis] =
                           Div(size, st.heap[ref].mesh.geometry[axis])])

\* the R, G and B fields' onChange of a light (channel r, g, b)
onIntensityChange(st, ref, channel, value) ==
    LET s1 == [st EXCEPT !.heap[ref].data.intensity[channel] = MathMax(Zero, value)]
    IN  refreshSceneJson([s1 EXCEPT !.heap[ref].light.color = s1.heap[ref].data.intensity])

\* the direction fields' onChange of a light (axis x, y, z)
onDirectionChange(st, ref, axis, value) ==
    refreshSceneJson([st EXCEPT !.heap[ref].data.direction[axis] = value])

\* the change listener of createNumberField: a text that parses to NaN is dropped
\* hexToColor: each channel of "#rrggbb" over 255
hexToColor(hex) == [r |-> Num(hex[1], 255), g |-> Num(hex[2], 255), b |-> Num(hex[3], 255)]

\* the Color field's onChange, of a sphere or a cube
onColorChange(st, ref, hex) ==
    refreshSceneJson(
        [st EXCEPT !.heap[ref].data.color = hexToColor(hex),
                   !.heap[ref].mesh.material.color = ThreeColor(hex)])

numberFieldChange(st, parsed, applied) == IF IsNaN(parsed) THEN st ELSE applied

(***************************************************************************)
(* Picking: the ancestor walk of the pointerdown listener.  A node is      *)
(* <<owner, part>>: the root mesh or group of an entity, the marker under  *)
(* a light's group, or the scene.                                          *)
(***************************************************************************)
SceneNode == <<NULL, "scene">>
NoNode == <<>>

\* nodes without a link to their parent
parent_none(node) == NoNode

parent(node) ==
    IF node[2] = "marker" THEN <<node[1], "root">>
    ELSE IF node[2] = "root" THEN SceneNode
    ELSE NoNode

\* entities.find((entity) => entity.mesh === candidate)
FindByMesh(refs, candidate) ==
    IF candidate[2] = "root" /\ indexOf(refs, candidate[1]) > 0
    THEN candidate[1] ELSE NULL

RECURSIVE AncestorWalk(_, _)
AncestorWalk(refs, candidate) ==
    IF candidate = NoNode THEN NULL
    ELSE LET match == FindByMesh(refs, candidate)
         IN  IF match # NULL THEN match
             ELSE AncestorWalk(refs, parent(candidate))

\* the nodes of the live entities a ray can hit: meshes, not groups
HitNodes(st) ==
    {<<st.entities[i], IF st.heap[st.entities[i]].kind = "light" THEN "marker" ELSE "root">> :
        i \in DOMAIN st.entities}

\* a pointerdown whose miss empties the selection
pointerdown_clear(st, hit) ==
    IF hit = NoNode THEN selectEntity(st, NoId)
    ELSE LET match == AncestorWalk(st.entities, hit)
         IN  IF match # NULL THEN selectEntity(st, st.heap[match].id) ELSE st

pointerdown(st, hit) ==
    IF hit = NoNode THEN st
    ELSE LET match == AncestorWalk(st.entities, hit)
         IN  IF match # NULL THEN selectEntity(st, st.heap[match].id) ELSE st

\* a delete button that removes the first live entity, not the selected one
deleteClick_first(st) ==
    IF st.selectedEntity = NULL THEN st
    ELSE removeEntity(selectEntity(st, NoId), st.entities[1])

\* the delete button's click listener
deleteClick(st) ==
    IF st.selectedEntity = NULL THEN st
    ELSE LET toRemove == st.selectedEntity
         IN  removeEntity(selectEntity(st, NoId), toRemove)

\* the change listener of a transform radio button that is now checked
transformRadioChange(st, value) ==
    IF st.selectedEntity = NULL THEN st
    ELSE IF value = "translate"
         THEN [st EXCEPT !.transformObject = st.selectedEntity]
         ELSE [st EXCEPT !.transformObject = NULL]

(***************************************************************************)
(* Inputs: the files a user imports, the numbers typed, the drag targets.  *)
(***************************************************************************)
V(x, y, z) == <<IntNum(x), IntNum(y), IntNum(z)>>

CameraReadme ==
    [position |-> V(0, 0, -5), look_at |-> V(0, 0, 0), up |-> V(0, 1, 0),
     fov |-> IntNum(60), width |-> IntNum(400), height |-> IntNum(300)]

SphereRecord ==
    [type |-> "sphere", center |-> V(0, 0, 0), radius |-> IntNum(1),
     color |-> <<One, Num(1, 5), Num(1, 5)>>]

\* Scenario B's cube
CubeRecord ==
    [type |-> "cube", min |-> V(-2, -1, 3), max |-> V(-1, 1, 4),
     color |-> <<Num(1, 5), Num(1, 5), One>>]

\* a cube whose corners agree on x: width 0
FlatCubeRecord ==
    [type |-> "cube", min |-> V(0, 0, 0), max |-> V(0, 1, 1),
     color |-> <<Num(1, 5), Num(1, 5), One>>]

LightRecord ==
    [type |-> "point", position |-> V(5, 5, -5), intensity |-> <<One, One, One>>,
     direction |-> V(0, -1, 0)]

Json(data) == [valid |-> TRUE, data |-> data]

FileScene ==
    Json([camera |-> CameraReadme, objects |-> <<SphereRecord>>, lights |-> <<LightRecord>>])

FileFlatCube ==
    Json([camera |-> CameraReadme, objects |-> <<FlatCubeRecord>>, lights |-> <<>>])

\* malformed: the camera block has no look_at
FileNoLookAt ==
    Json([camera |-> [position |-> V(0, 0, -5)], objects |-> <<SphereRecord>>,
          lights |-> <<>>])

\* malformed: the camera block has no position
FileNoPosition ==
    Json([camera |-> [look_at |-> V(0, 0, 0)], objects |-> <<SphereRecord>>,
          lights |-> <<>>])

\* malformed: the second object record has no color
FileBadObject ==
    Json([objects |-> <<SphereRecord, [type |-> "sphere", center |-> V(0, 0, 0),
                                       radius |-> IntNum(1)]>>,
          lights |-> <<>>])

\* not JSON at all
FileNotJson == [valid |-> FALSE]

Files == {FileScene, FileFlatCube, FileNoLookAt, FileNoPosition, FileBadObject, FileNotJson}

\* what parseFloat makes of the text typed into a number field
FieldValues == {NaN, Infinity, IntNum(-5), IntNum(2)}

Channels == {"r", "g", "b"}

\* where a drag frame puts the attached node
DragPositions == {Vector3(IntNum(4), Zero, IntNum(4))}

(***************************************************************************)
(* The state after the script has run, and one action per event handler.   *)
(***************************************************************************)
CameraInit ==
    [position |-> Vector3(IntNum(8), IntNum(6), IntNum(8)),
     lookAt |-> Vector3(Zero, One, Zero),
     up |-> Vector3(Zero, One, Zero),
     fov |-> IntNum(60), width |-> IntNum(640), height |-> IntNum(480)]

\* camera.position.set(8, 6, 8), orbit.target.set(0, 1, 0), the default up, fov 60
ViewInit ==
    [position |-> Vector3(IntNum(8), IntNum(6), IntNum(8)),
     target |-> Vector3(Zero, One, Zero),
     up |-> Vector3(Zero, One, Zero),
     fov |-> IntNum(60)]

Fresh ==
    refreshSceneJson(populateCameraForm(
        [entities |-> <<>>, heap |-> <<>>, idCounter |-> 1, selectedEntity |-> NULL,
         transformObject |-> NULL, cameraState |-> CameraInit, options |-> <<>>,
         editorHidden |-> TRUE, formEntity |-> NULL, sceneJsonText |-> <<>>,
         cameraForm |-> <<>>, view |-> ViewInit, threw |-> FALSE]))

InitEditor ==
    /\ entities = Fresh.entities
    /\ heap = Fresh.heap
    /\ idCounter = Fresh.idCounter
    /\ selectedEntity = Fresh.selectedEntity
    /\ transformObject = Fresh.transformObject
    /\ cameraState = Fresh.cameraState
    /\ options = Fresh.options
    /\ editorHidden = Fresh.editorHidden
    /\ formEntity = Fresh.formEntity
    /\ sceneJsonText = Fresh.sceneJsonText
    /\ cameraForm = Fresh.cameraForm
    /\ view = Fresh.view
    /\ edits = 0

Init == InitEditor /\ pending = 0

\* what a run has used of MaxWork: every construction advances idCounter by one
Work(st) == (st.idCounter - 1) + edits

AddSphereClick ==
    /\ Work(Cur) < MaxWork
    /\ Commit(createSphereEntity(Cur))
    /\ UNCHANGED <<pending, edits>>

AddCubeClick ==
    /\ Work(Cur) < MaxWork
    /\ Commit(createCubeEntity(Cur))
    /\ UNCHANGED <<pending, edits>>

AddLightClick ==
    /\ Work(Cur) < MaxWork
    /\ Commit(createLightEntity(Cur))
    /\ UNCHANGED <<pending, edits>>

\* the user picks an option of the object list
ObjectListChange ==
    \E i \in DOMAIN options :
        /\ Commit(selectEntity(Cur, options[i]))
        /\ UNCHANGED <<pending, edits>>

DeleteClick ==
    /\ Commit(deleteClick(Cur))
    /\ UNCHANGED <<pending, edits>>

TransformRadioChange ==
    \E value \in {"translate", "rotate"} :
        /\ Commit(transformRadioChange(Cur, value))
        /\ UNCHANGED <<pending, edits>>

PointerDown ==
    \E hit \in HitNodes(Cur) \cup {NoNode} :
        /\ Commit(pointerdown(Cur, hit))
        /\ UNCHANGED <<pending, edits>>

\* the fields of the form can be used while the editor panel is shown
FormShown == ~editorHidden /\ formEntity # NULL

PositionFieldChange ==
    \E axis \in Axes, parsed \in FieldValues :
        /\ FormShown
        /\ Work(Cur) < MaxWork
        /\ edits' = edits + 1
        /\ Commit(numberFieldChange(Cur, parsed, setEntityPosition(Cur, axis, parsed)))
        /\ UNCHANGED pending

RadiusFieldChange ==
    \E parsed \in FieldValues :
        /\ FormShown
        /\ heap[formEntity].kind = "sphere"
        /\ Work(Cur) < MaxWork
        /\ edits' = edits + 1
        /\ Commit(numberFieldChange(Cur, parsed, onRadiusChange(Cur, formEntity, parsed)))
        /\ UNCHANGED pending

DimensionFieldChange ==
    \E axis \in Axes, parsed \in FieldValues :
        /\ FormShown
        /\ heap[formEntity].kind = "cube"
        /\ Work(Cur) < MaxWork
        /\ edits' = edits + 1
        /\ Commit(numberFieldChange(Cur, parsed,
                                    onDimensionChange(Cur, formEntity, axis, parsed)))
        /\ UNCHANGED pending

IntensityFieldChange ==
    \E channel \in Channels, parsed \in FieldValues :
        /\ FormShown
        /\ heap[formEntity].kind = "light"
        /\ Work(Cur) < MaxWork
        /\ edits' = edits + 1
        /\ Commit(numberFieldChange(Cur, parsed,
                                    onIntensityChange(Cur, formEntity, channel, parsed)))
        /\ UNCHANGED pending

DirectionFieldChange ==
    \E axis \in Axes, parsed \in FieldValues :
        /\ FormShown
        /\ heap[formEntity].kind = "light"
        /\ Work(Cur) < MaxWork
        /\ edits' = edits + 1
        /\ Commit(numberFieldChange(Cur, parsed,
                                    onDirectionChange(Cur, formEntity, axis, parsed)))
        /\ UNCHANGED pending

\* one frame of a gizmo drag: the controls move the attached node, then fire objectChange
GizmoDrag ==
    \E position \in DragPositions :
        /\ transformObject # NULL
        /\ Work(Cur) < MaxWork
        /\ edits' = edits + 1
        /\ Commit(objectChange(
                [Cur EXCEPT !.heap[transformObject].mesh.position = position]))
        /\ UNCHANGED pending

\* the import input's change listener: reader.readAsText(file) starts a read
ImportChange ==
    /\ pending < MaxPending
    /\ pending' = pending + 1
    /\ UNCHANGED <<entities, heap, idCounter, selectedEntity, transformObject,
                   cameraState, options, editorHidden, formEntity, sceneJsonText,
                   cameraForm, view, edits>>

\* reader.onload for a read that ends with the file's text
Load(text) ==
    /\ pending > 0
    /\ Work(onload(Cur, text)) <= MaxWork
    /\ pending' = pending - 1
    /\ Commit(onload(Cur, text))
    /\ UNCHANGED edits

ReaderOnload == \E text \in Files : Load(text)

Next ==
    \/ AddSphereClick
    \/ AddCubeClick
    \/ AddLightClick
    \/ ObjectListChange
    \/ DeleteClick
    \/ TransformRadioChange
    \/ PointerDown
    \/ PositionFieldChange
    \/ RadiusFieldChange
    \/ DimensionFieldChange
    \/ IntensityFieldChange
    \/ DirectionFieldChange
    \/ GizmoDrag
    \/ ImportChange
    \/ ReaderOnload

Spec == Init /\ [][Next]_vars

(***************************************************************************)
(* removeEntity as an operation of its own: called on any entity object,   *)
(* live or not.  No event handler of the editor does this.                 *)
(***************************************************************************)
\* what the colour picker is set to
PickedColors == {Hex(0, 0, 0), Hex(255, 0, 0), Hex(51, 102, 153)}

\* the input event of a colour field
ColorFieldInput ==
    \E hex \in PickedColors :
        /\ FormShown
        /\ heap[formEntity].kind \in {"sphere", "cube"}
        /\ Commit(onColorChange(Cur, formEntity, hex))
        /\ UNCHANGED <<pending, edits>>

NextColour == AddSphereClick \/ AddCubeClick \/ ObjectListChange \/ ColorFieldInput

SpecColour == Init /\ [][NextColour]_vars

RemoveEntityCall(ref) ==
    /\ heap[ref].mesh.disposed < MaxDirect
    /\ Commit(removeEntity(Cur, ref))
    /\ UNCHANGED <<pending, edits>>

RemoveEntityDirect == \E ref \in DOMAIN heap : RemoveEntityCall(ref)

NextDirect == Next \/ RemoveEntityDirect

SpecDirect == Init /\ [][NextDirect]_vars

(***************************************************************************)
(* selectEntity as an operation of its own: called with null, with the id  *)
(* of a live entity or with an id that was issued and is no longer live.   *)
(***************************************************************************)
IssuedIds == {heap[ref].id : ref \in DOMAIN heap} \cup {NoId}

SelectEntityCall(id) ==
    /\ Commit(selectEntity(Cur, id))
    /\ UNCHANGED <<pending, edits>>

SelectEntityDirect == \E id \in IssuedIds : SelectEntityCall(id)

NextSelect == Next \/ SelectEntityDirect

SpecSelect == Init /\ [][NextSelect]_vars

(***************************************************************************)
(* Imports of documents that leave fields out, carry unknown type tags or  *)
(* colours out of range, one after another.                                *)
(***************************************************************************)
\* no camera block at all
FileNoCamera == Json([objects |-> <<SphereRecord>>, lights |-> <<>>])

\* a camera that sets every optional field to something else than a fresh editor has
FileFov45 ==
    Json([camera |-> [position |-> V(1, 2, 3), look_at |-> V(0, 0, 0), up |-> V(1, 0, 0),
                      fov |-> IntNum(45), width |-> IntNum(800), height |-> IntNum(600)],
          objects |-> <<>>, lights |-> <<>>])

\* the camera has only the required fields, the light (as in the README) no direction
FileOptionalOmitted ==
    Json([camera |-> [position |-> V(0, 0, -5), look_at |-> V(0, 0, 0)],
          objects |-> <<>>,
          lights |-> <<[type |-> "point", position |-> V(5, 5, -5),
                        intensity |-> <<One, One, One>>]>>])

\* records of a type the editor does not know, before and between known ones
FileUnknownTypes ==
    Json([camera |-> CameraReadme,
          objects |-> <<[type |-> "mesh"], SphereRecord,
                        [type |-> "plane", center |-> V(0, 0, 0)], CubeRecord>>,
          lights |-> <<[type |-> "spot", position |-> V(0, 9, 0)], LightRecord>>])

\* a sphere whose colour channels lie outside [0, 1]
FileBrightColor ==
    Json([camera |-> CameraReadme,
          objects |-> <<[SphereRecord EXCEPT !.color = <<IntNum(2), IntNum(-1), Num(1, 2)>>]>>,
          lights |-> <<>>])

ImportFiles ==
    {FileScene, FileNoCamera, FileFov45, FileOptionalOmitted, FileUnknownTypes,
     FileBrightColor, FileNoLookAt, FileNoPosition, FileNotJson}

\* reader.onload for one of these files
ImportLoad(text) ==
    /\ pending > 0
    /\ onload(Cur, text).idCounter - 1 <= MaxImported
    /\ pending' = pending - 1
    /\ Commit(onload(Cur, text))
    /\ UNCHANGED edits

ImportOnload == \E text \in ImportFiles : ImportLoad(text)

NextImport == AddSphereClick \/ DeleteClick \/ ImportChange \/ ImportOnload

SpecImport == Init /\ [][NextImport]_vars

(***************************************************************************)
(* The camera: the camera form, the two camera buttons, orbiting the view, *)
(* and imports, next to a sphere and its radius field.                     *)
(***************************************************************************)
\* the twelve fields of the camera form
CameraFields ==
    {<<group, axis>> : group \in {"position", "lookAt", "up"}, axis \in Axes}
        \cup {<<"fov">>, <<"width">>, <<"height">>}

\* the field of a camera state or of the form's contents
FieldOf(camera, field) ==
    IF Len(field) = 2 THEN camera[field[1]][field[2]] ELSE camera[field[1]]

\* the user types into one field of the camera form
typeInto(st, field, value) ==
    IF Len(field) = 2
    THEN [st EXCEPT !.cameraForm[field[1]][field[2]] = value]
    ELSE [st EXCEPT !.cameraForm[field[1]] = value]

\* what Number makes of the text typed into a camera field
CameraTexts == {NaN, Num(5, 2), IntNum(-3)}

\* the fields the user types into
TypedFields ==
    {<<"position", "x">>, <<"lookAt", "y">>, <<"up", "z">>, <<"fov">>, <<"width">>, <<"height">>}

\* where orbiting and panning leave the view camera and the orbit target
OrbitViews ==
    {[position |-> Vector3(Num(12345, 10000), IntNum(6), IntNum(8)),
      target |-> Vector3(Zero, One, Zero)],
     [position |-> Vector3(IntNum(8), IntNum(6), IntNum(8)),
      target |-> Vector3(IntNum(2), One, Zero)]}

\* a camera whose numbers have more decimals than the form shows
FileDecimals ==
    Json([camera |-> [CameraReadme EXCEPT !.position = <<Num(12345, 100000), Zero, IntNum(-5)>>,
                                          !.fov = Num(45678, 1000)],
          objects |-> <<>>, lights |-> <<>>])

\* a camera whose width is not an integer and whose height is negative
FileHalfWidth ==
    Json([camera |-> [CameraReadme EXCEPT !.width = Num(801, 2), !.height = IntNum(-3)],
          objects |-> <<>>, lights |-> <<>>])

\* spheres of radius 0 and -1
FileZeroRadius ==
    Json([camera |-> CameraReadme,
          objects |-> <<[SphereRecord EXCEPT !.radius = Zero],
                        [SphereRecord EXCEPT !.radius = IntNum(-1)]>>,
          lights |-> <<>>])

CameraFiles ==
    {FileScene, FileFov45, FileDecimals, FileHalfWidth, FileZeroRadius, FileNoLookAt}

\* the change event of the camera form, after the user typed into one field
CameraFormChange ==
    \E field \in TypedFields, typed \in CameraTexts :
        /\ Work(Cur) < MaxWork
        /\ edits' = edits + 1
        /\ Commit(updateCameraStateFromForm(typeInto(Cur, field, typed)))
        /\ UNCHANGED pending

FocusOriginClick ==
    /\ Work(Cur) < MaxWork
    /\ edits' = edits + 1
    /\ Commit(focusOrigin(Cur))
    /\ UNCHANGED pending

SyncFromViewClick ==
    /\ Work(Cur) < MaxWork
    /\ edits' = edits + 1
    /\ Commit(syncFromView(Cur))
    /\ UNCHANGED pending

\* the user orbits or pans the viewport
OrbitChange ==
    \E moved \in OrbitViews :
        /\ Work(Cur) < MaxWork
        /\ edits' = edits + 1
        /\ view' = [view EXCEPT !.position = moved.position, !.target = moved.target]
        /\ UNCHANGED <<entities, heap, idCounter, selectedEntity, transformObject,
                       cameraState, options, editorHidden, formEntity, sceneJsonText,
                       cameraForm, pending>>

CameraOnload == \E text \in CameraFiles : Load(text)

NextCamera ==
    \/ AddSphereClick
    \/ RadiusFieldChange
    \/ CameraFormChange
    \/ FocusOriginClick
    \/ SyncFromViewClick
    \/ OrbitChange
    \/ ImportChange
    \/ CameraOnload

SpecCamera == Init /\ [][NextCamera]_vars

(***************************************************************************)
(* Two reads in flight: the import input is used again before the first    *)
(* read has ended, next to creation and deletion.                          *)
(***************************************************************************)
ReadIssued ==
    /\ pending < MaxReads
    /\ pending' = pending + 1
    /\ UNCHANGED <<entities, heap, idCounter, selectedEntity, transformObject,
                   cameraState, options, editorHidden, formEntity, sceneJsonText,
                   cameraForm, view, edits>>

NextReads ==
    \/ AddSphereClick
    \/ AddCubeClick
    \/ ObjectListChange
    \/ DeleteClick
    \/ ReadIssued
    \/ ReaderOnload

SpecReads == Init /\ [][NextReads]_vars

(***************************************************************************)
(* The cube conversion: a fresh editor imports one cube record whose       *)
(* corners are drawn from a grid, with min <= max on every axis.           *)
(***************************************************************************)
\* the lower and upper corner coordinates on one axis, lower <= upper
Extents(values) == {<<lo, hi>> \in values \X values : ~Less(hi, lo)}

Cubes ==
    {[type |-> "cube", min |-> <<x[1], y[1], z[1]>>, max |-> <<x[2], y[2], z[2]>>,
      color |-> <<Num(1, 5), Num(1, 5), One>>] :
        x \in Extents({IntNum(-2), IntNum(-1), Num(1, 2)}),
        y \in Extents({IntNum(-1), Num(1, 4), IntNum(1)}),
        z \in Extents({IntNum(3), Num(7, 2), IntNum(4)})}

CubeFile(cube) == Json([camera |-> CameraReadme, objects |-> <<cube>>, lights |-> <<>>])

InitCube == InitEditor /\ pending = 1

NextCube == \E cube \in Cubes : Load(CubeFile(cube))

SpecCube == InitCube /\ [][NextCube]_vars

(***************************************************************************)
(* Import into a fresh editor: one read is in flight when the editor       *)
(* starts, and it ends with any of the valid documents.                    *)
(***************************************************************************)
ValidCameras ==
    {[CameraReadme EXCEPT !.fov = fov, !.width = width] :
        fov \in {Zero, IntNum(45), IntNum(60)}, width \in {IntNum(400), IntNum(640)}}

ValidObjects == {SphereRecord, CubeRecord, FlatCubeRecord}

ValidObjectLists ==
    {<<>>} \cup {<<a>> : a \in ValidObjects}
           \cup {<<a, b>> : a \in ValidObjects, b \in ValidObjects}

ValidLightLists == {<<>>, <<LightRecord>>}

ValidFiles ==
    {Json([camera |-> cam, objects |-> objs, lights |-> lights]) :
        cam \in ValidCameras, objs \in ValidObjectLists, lights \in ValidLightLists}

InitRoundTrip == InitEditor /\ pending = 1

NextRoundTrip == \E text \in ValidFiles : Load(text)

SpecRoundTrip == InitRoundTrip /\ [][NextRoundTrip]_vars

(***************************************************************************)
(* Properties.                                                             *)
(***************************************************************************)
Live(ref) == indexOf(entities, ref) > 0

LiveEntities == {heap[entities[i]] : i \in DOMAIN entities}

\* data.center for a sphere or a cube, data.position for a light
Canonical(e) == IF e.kind = "light" THEN e.data.position ELSE e.data.center

\* C1: every live entity's canonical position equals its visual node's position on
\* all three axes, after every handler.
C1_PositionConsistent ==
    \A e \in LiveEntities : VecEq(Canonical(e), e.mesh.position)

\* C1 witness: a live entity was dragged and then edited again.
C1_Witness ==
    /\ edits = 2
    /\ \E e \in LiveEntities :
           /\ e.mesh.position.x = IntNum(4)
           /\ e.mesh.position # Vector3(IntNum(4), Zero, IntNum(4))

\* the size of the visual on one axis: mesh scale times the base geometry dimension
VisualSize(e, axis) == Mul(e.mesh.scale[axis], e.mesh.geometry[axis])

\* C2: every live sphere's visual size equals its radius and every live cube's
\* visual size on each axis equals its canonical size on that axis.
C2_SizeConsistent ==
    \A e \in LiveEntities : \A axis \in Axes :
        /\ e.kind = "sphere" => StrictEq(VisualSize(e, axis), e.data.radius)
        /\ e.kind = "cube" => StrictEq(VisualSize(e, axis), e.data.size[axis])

\* C3: no two entities ever constructed share an id (so no two live ones do, and
\* no id is issued twice), and no entity's id ever changes.
C3_IdsUniqueAndStable ==
    /\ [](\A r1, r2 \in DOMAIN heap : heap[r1].id = heap[r2].id => r1 = r2)
    /\ [][\A ref \in DOMAIN heap : heap'[ref].id = heap[ref].id]_vars

\* C3 witness: an entity was deleted and another was made after it.
C3_Witness ==
    \E r1, r2 \in DOMAIN heap : r1 < r2 /\ ~Live(r1) /\ Live(r2)

\* C4: the selection is empty or is one entity of the live list.
C4_SelectionLive == selectedEntity = NULL \/ Live(selectedEntity)

\* C4 witness: an entity was removed and the selection is empty beside live entities.
C4_Witness ==
    /\ selectedEntity = NULL
    /\ entities # <<>>
    /\ \E ref \in DOMAIN heap : ~Live(ref)

\* the document misses a field the import needs: not JSON at all, a camera block
\* without position or look_at, or an object record without one of its fields
RecordIncomplete(obj) ==
    /\ Has(obj, "type")
    /\ \/ obj.type = "sphere" /\ ~({"center", "radius", "color"} \subseteq DOMAIN obj)
       \/ obj.type = "cube" /\ ~({"min", "max", "color"} \subseteq DOMAIN obj)

Malformed(text) ==
    \/ ~text.valid
    \/ /\ text.valid
       /\ \/ /\ Has(text.data, "camera")
             /\ ~({"position", "look_at"} \subseteq DOMAIN text.data.camera)
          \/ /\ Has(text.data, "objects")
             /\ \E i \in DOMAIN text.data.objects :
                    RecordIncomplete(text.data.objects[i])

\* C5: an import of a malformed document leaves the live entity list, the
\* selection and the camera state exactly as they were.
C5_FailedImportKeepsScene ==
    [][\A text \in Files :
          (Malformed(text) /\ Load(text)) =>
              UNCHANGED <<entities, selectedEntity, cameraState>>]_vars

\* C6: importing a valid document into a fresh editor and exporting gives the
\* document back.
C6_RoundTrip ==
    [][\A text \in ValidFiles : Load(text) => sceneJsonText' = text.data]_vars

\* what create(kind) must do: one entity more, at the end, with a fresh id and the
\* kind's default data, selected, every other entity as it was
CreatePost(kind, data) ==
    LET new == entities'[Len(entities')]
    IN  /\ Len(entities') = Len(entities) + 1
        /\ SubSeq(entities', 1, Len(entities)) = entities
        /\ ~Live(new)
        /\ heap'[new].kind = kind
        /\ heap'[new].data = data
        /\ \A ref \in DOMAIN heap : heap'[new].id # heap[ref].id
        /\ selectedEntity' = new
        /\ \A e \in LiveEntities : \E ref \in DOMAIN heap : heap[ref] = e /\ heap'[ref] = e

\* Scenario A: the export after a sphere was made in the empty scene
ScenarioA ==
    entities = <<>> =>
        /\ Len(sceneJsonText'.objects) = 1
        /\ sceneJsonText'.objects[1].type = "sphere"
        /\ sceneJsonText'.objects[1].radius = IntNum(1)
        /\ sceneJsonText'.objects[1].center = V(0, 1, 0)

\* C7: create adds exactly one entity, at the end of the list, with a fresh id and
\* the kind's default data, selects it and changes no other entity; it throws
\* nothing; a sphere made in the empty scene is exported with radius 1 at (0,1,0).
C7_CreateAddsOne ==
    /\ [](/\ ~createSphereEntity(Cur).threw
          /\ ~createCubeEntity(Cur).threw
          /\ ~createLightEntity(Cur).threw)
    /\ [][/\ AddSphereClick =>
               /\ CreatePost("sphere",
                      [center |-> Vector3(Zero, One, Zero), radius |-> One,
                       color |-> [r |-> Num(533, 1000), g |-> Num(4, 5), b |-> One]])
               /\ ScenarioA
          /\ AddCubeClick => CreatePost("cube", CubeDefault.data)
          /\ AddLightClick => CreatePost("light", LightDefault.data)]_vars

\* C7 witness: a cube was made second and is the selection.
C7_Witness ==
    /\ Len(entities) = 2
    /\ heap[entities[2]].data = CubeDefault.data
    /\ selectedEntity = entities[2]
    /\ heap[entities[1]].kind = "sphere"

\* the live list and the export without the entity at index
LiveWithout(index) == [Cur EXCEPT !.entities = Splice(entities, index)]

\* C8: the delete button removes exactly the selected entity from the live list
\* and from the exported document, empties the selection and changes no other
\* entity; with nothing selected it changes nothing.
C8_DeleteRemovesSelected ==
    [][DeleteClick =>
          IF selectedEntity = NULL THEN UNCHANGED vars
          ELSE LET index == indexOf(entities, selectedEntity)
               IN  /\ index > 0
                   /\ entities' = Splice(entities, index)
                   /\ selectedEntity' = NULL
                   /\ \A i \in DOMAIN entities' :
                          heap'[entities'[i]] = heap[entities'[i]]
                   /\ sceneJsonText' = stringify(buildSceneJson(LiveWithout(index)))
                   /\ Len(sceneJsonText'.objects) + Len(sceneJsonText'.lights)
                          = Len(entities) - 1]_vars

\* C8 witness: the first of three entities was deleted, the other two are live.
C8_Witness ==
    /\ Len(heap) = 3
    /\ entities = <<2, 3>>
    /\ selectedEntity = NULL
    /\ heap[1].mesh.disposed = 1

\* C9: removeEntity on an entity that is not live changes neither the live list
\* nor the selection and disposes nothing.
C9_RemoveNonLiveNoOp ==
    [][\A ref \in DOMAIN heap :
          (~Live(ref) /\ RemoveEntityCall(ref)) =>
              /\ UNCHANGED <<entities, selectedEntity>>
              /\ heap'[ref].mesh.disposed = heap[ref].mesh.disposed]_vars

\* the live entities that carry the id
LiveWithId(id) == {ref \in DOMAIN heap : Live(ref) /\ heap[ref].id = id}

\* C11: select(id) selects the live entity with that id; for null and for an id
\* that names no live entity (a deleted one included) it empties the selection
\* and throws nothing; either way the live list and every live entity's data
\* stay as they were.
C11_SelectById ==
    \A id \in IssuedIds :
        LET st == selectEntity(Cur, id)
        IN  /\ ~st.threw
            /\ IF LiveWithId(id) = {} THEN st.selectedEntity = NULL
               ELSE st.selectedEntity \in LiveWithId(id)
            /\ st.entities = entities
            /\ \A i \in DOMAIN entities : st.heap[entities[i]] = heap[entities[i]]

\* C11 witness: the selection is empty, an entity is live, and an entity was
\* deleted whose id can still be asked for.
C11_Witness ==
    /\ selectedEntity = NULL
    /\ Len(entities) = 1
    /\ \E id \in IssuedIds : id # NoId /\ LiveWithId(id) = {}
    /\ transformObject = NULL
    /\ editorHidden

\* C12: a pointer-down whose ray hits no visual of a live entity leaves the
\* selection as it was and changes no entity.
C12_PickMissKeepsSelection ==
    LET st == pointerdown(Cur, NoNode)
    IN  /\ st.selectedEntity = selectedEntity
        /\ st.entities = entities
        /\ st.heap = heap
        /\ st.transformObject = transformObject

\* C12 witness: two entities are live and the first is the selection that a
\* miss has to keep.
C12_Witness ==
    /\ Len(entities) = 2
    /\ selectedEntity = entities[1]
    /\ pointerdown(Cur, NoNode).selectedEntity = entities[1]

\* C13: a pointer-down whose nearest hit is a node of a live entity's visual
\* (the root mesh of a sphere or cube, the marker under a light's group) selects
\* the entity that owns the node: the ancestor walk ends at that entity's root.
C13_PickHitSelectsOwner ==
    \A hit \in HitNodes(Cur) :
        /\ Live(hit[1])
        /\ AncestorWalk(entities, hit) = hit[1]
        /\ pointerdown(Cur, hit).selectedEntity = hit[1]
        /\ pointerdown(Cur, hit).transformObject = hit[1]

\* C13 witness: a light that is not the newest entity is the selection, and its
\* marker is a node a ray can hit.
C13_Witness ==
    /\ selectedEntity # NULL
    /\ heap[selectedEntity].kind = "light"
    /\ entities[Len(entities)] # selectedEntity
    /\ <<selectedEntity, "marker">> \in HitNodes(Cur)
    /\ AncestorWalk(entities, <<selectedEntity, "marker">>) = selectedEntity

\* the document lacks what the format requires: it is no JSON, or it has no
\* camera.position or no camera.look_at
MissingRequired(text) ==
    \/ ~text.valid
    \/ /\ text.valid
       /\ \/ ~Has(text.data, "camera")
          \/ /\ Has(text.data, "camera")
             /\ ~({"position", "look_at"} \subseteq DOMAIN text.data.camera)

\* C14: an import of text that is no JSON, or of a document without
\* camera.position or camera.look_at, ends in the error shown to the user and
\* constructs no entity.
C14_MalformedRejected ==
    [][\A text \in ImportFiles :
          (MissingRequired(text) /\ ImportLoad(text)) =>
              /\ alerted(Cur, text)
              /\ idCounter' = idCounter]_vars

\* the kinds of the entities that the records of a recognised type stand for
RECURSIVE KindsOf(_, _)
KindsOf(records, types) ==
    IF records = <<>> THEN <<>>
    ELSE LET r == Head(records)
             rest == KindsOf(Tail(records), types)
         IN  IF Has(r, "type") /\ r.type \in types
             THEN <<IF r.type = "point" THEN "light" ELSE r.type>> \o rest
             ELSE rest

EntityKinds(st) == [i \in DOMAIN st.entities |-> st.heap[st.entities[i]].kind]

\* C15: an import of a document in which some records carry a type the editor
\* does not know succeeds; those records give no entity and every sphere, cube
\* and point record, before or after them, gives exactly one, in order.
C15_UnknownTypesSkipped ==
    \A text \in ImportFiles :
        (text.valid /\ ~Malformed(text)) =>
            LET st == onload(Cur, text)
            IN  /\ ~st.threw
                /\ ~alerted(Cur, text)
                /\ EntityKinds(st) =
                       KindsOf(text.data.objects, {"sphere", "cube"})
                           \o KindsOf(text.data.lights, {"point"})

\* C15 witness: the document with six records, three of them of unknown type,
\* was imported: a sphere, Scenario B's cube and a light are live.
C15_Witness ==
    /\ EntityKinds(Cur) = <<"sphere", "cube", "light">>
    /\ heap[entities[2]].data.size = Vector3(One, IntNum(2), One)
    /\ Len(sceneJsonText.objects) = 2
    /\ Len(sceneJsonText.lights) = 1

\* the camera block has the required fields and leaves optional ones out
OmitsOptional(text) ==
    /\ text.valid
    /\ Has(text.data, "camera")
    /\ {"position", "look_at"} \subseteq DOMAIN text.data.camera
    /\ ~({"up", "fov", "width", "height"} \subseteq DOMAIN text.data.camera)

\* the value a field of the camera state has after the import of a camera block:
\* the block's, or else the one a fresh editor has
Defaulted(cam, field, state) ==
    IF Has(cam, field) THEN TRUE ELSE state = CameraInit[field]

\* C16: an import of a document that omits camera up, fov, width or height, or
\* a light's direction, succeeds, and every omitted field takes its default
\* (direction (0,-1,0)), whatever the editor held before.
C16_OmittedTakeDefaults ==
    [][\A text \in ImportFiles :
          (OmitsOptional(text) /\ ImportLoad(text)) =>
              LET cam == text.data.camera
              IN  /\ ~alerted(Cur, text)
                  /\ Defaulted(cam, "up", cameraState'.up)
                  /\ Defaulted(cam, "fov", cameraState'.fov)
                  /\ Defaulted(cam, "width", cameraState'.width)
                  /\ Defaulted(cam, "height", cameraState'.height)
                  /\ \A i \in DOMAIN entities' :
                         heap'[entities'[i]].kind = "light" =>
                             heap'[entities'[i]].data.direction
                                 = Vector3(Zero, IntNum(-1), Zero)]_vars

\* a number of the exported text that lies in [0, 1]
InUnit(c) == c # JsonNull /\ ~Less(c, Zero) /\ ~Less(One, c)

\* C18: every colour channel of every object record of the exported document
\* lies in [0, 1].
C18_ExportedColourInRange ==
    \A i \in DOMAIN sceneJsonText.objects :
        \A k \in 1..3 : InUnit(sceneJsonText.objects[i].color[k])

Floored(lo, v) == IF Less(v, lo) THEN lo ELSE v

\* the numbers a field's onChange can be called with
ParsedValues == {v \in FieldValues : ~IsNaN(v)}

\* C17: a radius, width, height or depth edit with value v stores max(0.1, v), an
\* intensity component edit stores max(0, v) with no upper bound; the edit throws
\* nothing and the same edit made twice stores the same value (radius -5 twice:
\* 0.1 both times).
C17_ClampIsFloor ==
    \A v \in ParsedValues : \A i \in DOMAIN entities :
        LET ref == entities[i]
            kind == heap[ref].kind
        IN  /\ kind = "sphere" =>
                LET once == onRadiusChange(Cur, ref, v)
                    twice == onRadiusChange(once, ref, v)
                IN  /\ ~once.threw /\ ~twice.threw
                    /\ once.heap[ref].data.radius = Floored(Num(1, 10), v)
                    /\ twice.heap[ref].data.radius = Floored(Num(1, 10), v)
                    /\ v = IntNum(-5) => twice.heap[ref].data.radius = Num(1, 10)
            /\ kind = "cube" =>
                \A axis \in Axes :
                    LET once == onDimensionChange(Cur, ref, axis, v)
                        twice == onDimensionChange(once, ref, axis, v)
                    IN  /\ ~once.threw /\ ~twice.threw
                        /\ once.heap[ref].data.size[axis] = Floored(Num(1, 10), v)
                        /\ twice.heap[ref].data.size[axis] = Floored(Num(1, 10), v)
            /\ kind = "light" =>
                \A channel \in Channels :
                    LET once == onIntensityChange(Cur, ref, channel, v)
                        twice == onIntensityChange(once, ref, channel, v)
                    IN  /\ ~once.threw /\ ~twice.threw
                        /\ once.heap[ref].data.intensity[channel] = Floored(Zero, v)
                        /\ twice.heap[ref].data.intensity[channel] = Floored(Zero, v)

\* C17 witness: after two field edits a sphere has radius 0.1 and a visual of
\* that size.
C17_Witness ==
    /\ edits = 2
    /\ \E e \in LiveEntities :
          /\ e.kind = "sphere"
          /\ e.data.radius = Num(1, 10)
          /\ e.mesh.scale = Vector3(Num(1, 10), Num(1, 10), Num(1, 10))

\* the numbers of an entity's canonical data
CanonicalNumbers(e) ==
    IF e.kind = "sphere" THEN {e.data.center[a] : a \in Axes} \cup {e.data.radius}
    ELSE IF e.kind = "cube" THEN
        {e.data.center[a] : a \in Axes} \cup {e.data.size[a] : a \in Axes}
    ELSE {e.data.position[a] : a \in Axes} \cup {e.data.direction[a] : a \in Axes}
            \cup {e.data.intensity[c] : c \in Channels}

\* C19: after any sequence of field edits no canonical field of an entity holds
\* NaN or an infinity: an edit whose text parses to no finite number is dropped.
C19_CanonicalFinite ==
    \A e \in LiveEntities : \A n \in CanonicalNumbers(e) : IsFinite(n)

\* the kinds of the records of a document that the editor recognises, in order
DocKinds(data) ==
    (IF Has(data, "objects") THEN KindsOf(data.objects, {"sphere", "cube"}) ELSE <<>>)
        \o (IF Has(data, "lights") THEN KindsOf(data.lights, {"point"}) ELSE <<>>)

\* st is the editor after the import of text into the editor before: the live
\* entities are the document's recognised records, all built by this import,
\* and every entity that was live before is gone and disposed
Replaced(before, st, text) ==
    /\ EntityKinds(st) = DocKinds(text.data)
    /\ \A i \in DOMAIN st.entities : st.entities[i] > Len(before.heap)
    /\ \A i \in DOMAIN before.entities :
           /\ indexOf(st.entities, before.entities[i]) = 0
           /\ st.heap[before.entities[i]].mesh.disposed > 0
    /\ st.selectedEntity \in {NULL} \cup {st.entities[i] : i \in DOMAIN st.entities}
    /\ Len(st.sceneJsonText.objects) + Len(st.sceneJsonText.lights) = Len(st.entities)
    /\ Has(text.data, "camera") =>
           /\ st.cameraState.position = FromArray(text.data.camera.position)
           /\ st.cameraState.lookAt = FromArray(text.data.camera.look_at)

LiveOfKinds(kinds) == SelectSeq(entities, LAMBDA ref : heap[ref].kind \in kinds)

C25_ExportNeverStale ==
    sceneJsonText = stringify(buildSceneJson(Cur))

\* C27: the gizmo is attached to nothing or to the node of the selected live
\* entity, so a drag frame updates the entity whose node the gizmo moved.
C27_GizmoOnSelection ==
    /\ transformObject = NULL \/ transformObject = selectedEntity
    /\ transformObject # NULL =>
          /\ Live(transformObject)
          /\ LET moved == [Cur EXCEPT !.heap[transformObject].mesh.position =
                                         Vector3(IntNum(4), Zero, IntNum(4))]
                 st == objectChange(moved)
             IN  /\ Canonical(st.heap[transformObject]) = Vector3(IntNum(4), Zero, IntNum(4))
                 /\ \A i \in DOMAIN entities :
                        entities[i] # transformObject =>
                            st.heap[entities[i]] = heap[entities[i]]

\* C27 witness: an entity is selected and the gizmo was detached by the
\* transform radio buttons, with another entity live.
C27_Witness ==
    /\ selectedEntity # NULL
    /\ transformObject = NULL
    /\ Len(entities) = 2
    /\ ~editorHidden

\* a and b differ by at most tolerance
Within(a, b, tolerance) == ~Less(tolerance, Sub(a, b)) /\ ~Less(tolerance, Sub(b, a))

\* C23: after a sphere or a cube is created and after every colour field edit,
\* each channel of every live entity's canonical colour is within 1e-6 of the
\* same channel of its material colour.
C23_ColourConsistent ==
    \A e \in LiveEntities :
        e.kind \in {"sphere", "cube"} =>
            \A c \in Channels :
                Within(e.data.color[c], e.mesh.material.color[c], Num(1, 1000000))

\* a number of the exported document that is an integer above 0
PositiveInteger(a) == a # JsonNull /\ a[2] = 1 /\ a[1] > 0

\* C22: in the exported document every sphere record has a radius above 0 and
\* the camera's width and height are integers above 0, after any sequence of
\* create, property edit, camera form change and import.
C22_SchemaNumbers ==
    /\ \A i \in DOMAIN sceneJsonText.objects :
           sceneJsonText.objects[i].type = "sphere" =>
               /\ sceneJsonText.objects[i].radius # JsonNull
               /\ Less(Zero, sceneJsonText.objects[i].radius)
    /\ PositiveInteger(sceneJsonText.camera.width)
    /\ PositiveInteger(sceneJsonText.camera.height)

\* C26: a camera form change after the user typed a number into one field
\* leaves every other field of the camera state, and so of the exported
\* camera, at the value it had, whatever came before.
C26_OnlyEditedField ==
    \A field \in CameraFields, typed \in {IntNum(2), IntNum(30)} :
        LET st == updateCameraStateFromForm(typeInto(Cur, field, typed))
        IN  \A other \in CameraFields \ {field} :
                FieldOf(st.cameraState, other) = FieldOf(cameraState, other)

\* C10: a visual is disposed exactly once, by the handler that removes its entity:
\* not at all while the entity is live, once when it is not.
C10_DisposedOnce ==
    \A ref \in DOMAIN heap :
        heap[ref].mesh.disposed = IF Live(ref) THEN 0 ELSE 1

\* C10 witness: one entity removed by the delete button or an import, another live.
C10_Witness ==
    \E r1, r2 \in DOMAIN heap :
        ~Live(r1) /\ heap[r1].mesh.disposed = 1 /\ Live(r2)

====
